---- MODULE Spec2Model ----
(***************************************************************************)
(* Model of the naming-policy and dialect-dispatch functions of the       *)
(* dbt-to-Dataform examples:                                               *)
(*   generateSchemaName  (includes/schema_utils.js)                        *)
(*   centsToDollars      (definitions/includes/utils.js)                   *)
(*   stores.js query     (models/marts/stores.js, dateTruncExpression)     *)
(*   dateTrunc           (definitions/utils.js)                            *)
(* JavaScript strings are sequences of one-character strings, so that     *)
(* trimming, interpolation and concatenation are computed character by    *)
(* character.  A JavaScript value is a record with a type tag t.          *)
(***************************************************************************)
EXTENDS Integers, Sequences, FiniteSets

VARIABLES
    defaultSchema,        \* dataform.projectConfig.defaultSchema
    environment,          \* dataform.variable("environment")
    warehouse,            \* dataform.projectConfig.warehouse
    console,              \* messages written with console.warn, oldest first
    call,                 \* the last call made: function name and arguments
    dateTruncExpression,  \* the local of the stores.js query callback
    outcome,              \* how the last call ended: returned value or thrown error
    pinned,               \* history: one earlier call, its configuration and outcome
    tasks,                \* the calls in progress, one frame per task
    spine                 \* the metricflow_time_spine query and its rows so far

vars == <<defaultSchema, environment, warehouse, console, call,
          dateTruncExpression, outcome, pinned, tasks, spine>>

----------------------------------------------------------------------------
(* Bounds of the model *)

\* longest generated custom schema name, in characters
MaxLen == 2

\* most console.warn messages kept in a behaviour
MaxConsole == 1

\* number of tasks that may be inside a call at the same time
NumTasks == 2

----------------------------------------------------------------------------
(* JavaScript values *)

Undefined == [t |-> "undefined", s |-> <<>>]
Null == [t |-> "null", s |-> <<>>]
Str(cs) == [t |-> "string", s |-> cs]

\* an object literal; only its resourceType property is ever read
Obj(rt) == [t |-> "object", s |-> <<>>, resourceType |-> rt]
EmptyObject == Obj(Undefined)

IsString(v) == v.t = "string"

\* ToBoolean: undefined, null and "" are falsy; other strings and objects truthy
Truthy(v) ==
    CASE v.t = "undefined" -> FALSE
      [] v.t = "null" -> FALSE
      [] v.t = "string" -> v.s # <<>>
      [] OTHER -> TRUE

\* strict equality (===) on the values used here
StrictEquals(a, b) == a.t = b.t /\ a.s = b.s

\* ToString as applied by a template literal ${...}
ToString(v) ==
    CASE v.t = "undefined" -> <<"u", "n", "d", "e", "f", "i", "n", "e", "d">>
      [] v.t = "null" -> <<"n", "u", "l", "l">>
      [] v.t = "string" -> v.s
      [] OTHER -> <<"[", "o", "b", "j", "e", "c", "t", " ", "O", "b", "j", "e", "c", "t", "]">>

\* white space removed by String.prototype.trim
IsWhiteSpace(c) == c \in {" ", "\t", "\n", "\r"}

RECURSIVE TrimStart(_)
TrimStart(cs) ==
    IF cs # <<>> /\ IsWhiteSpace(Head(cs)) THEN TrimStart(Tail(cs)) ELSE cs

RECURSIVE TrimEnd(_)
TrimEnd(cs) ==
    IF cs # <<>> /\ IsWhiteSpace(cs[Len(cs)])
    THEN TrimEnd(SubSeq(cs, 1, Len(cs) - 1))
    ELSE cs

\* String.prototype.trim
Trim(cs) == TrimEnd(TrimStart(cs))

\* the letters String.prototype.toUpperCase maps, and what it maps them to
LowerLetters ==
    <<"a", "b", "c", "d", "e", "f", "g", "h", "i", "j", "k", "l", "m", "n",
      "o", "p", "q", "r", "s", "t", "u", "v", "w", "x", "y", "z">>

UpperLetters ==
    <<"A", "B", "C", "D", "E", "F", "G", "H", "I", "J", "K", "L", "M", "N",
      "O", "P", "Q", "R", "S", "T", "U", "V", "W", "X", "Y", "Z">>

UpperChar(c) ==
    IF \E i \in DOMAIN LowerLetters : LowerLetters[i] = c
    THEN UpperLetters[CHOOSE i \in DOMAIN LowerLetters : LowerLetters[i] = c]
    ELSE c

\* String.prototype.toUpperCase
ToUpperCase(cs) == [i \in DOMAIN cs |-> UpperChar(cs[i])]

\* binding of the i-th parameter of a call: undefined when the argument is
\* missing; arguments beyond the declared parameters are bound to nothing
Arg(args, i) == IF i <= Len(args) THEN args[i] ELSE Undefined

\* how a call ends
Return(v) == [kind |-> "return", value |-> v]
Throw(name) == [kind |-> "throw", value |-> Str(name)]
NoOutcome == [kind |-> "none", value |-> Undefined]

\* no call recorded
NoCall == [fn |-> "none", args |-> <<>>]

\* the history variable before any call is recorded in it
NoPin ==
    [call |-> NoCall, defaultSchema |-> Undefined, environment |-> Undefined,
     warehouse |-> Undefined, outcome |-> NoOutcome]

Tasks == 1 .. NumTasks

\* the frame of a task: where it is in its call (idle, entered, read, done),
\* the function and arguments it was called with, the configuration values it
\* has read into its constants, and what it returned
IdleTask ==
    [pc |-> "idle", fn |-> "none", args |-> <<>>, defaultSchema |-> Undefined,
     environment |-> Undefined, warehouse |-> Undefined,
     dateTruncExpression |-> Undefined, result |-> NoOutcome]

\* a calendar date
Date(y, m, d) == [y |-> y, m |-> m, d |-> d]

\* the metricflow_time_spine table is defined and its query has not run:
\* no interval computed, no row produced
SpineDefined ==
    [phase |-> "defined", interval |-> 0, rows |-> 0, last |-> Date(0, 0, 0)]

----------------------------------------------------------------------------
(* String literals of the sources *)

Prod == <<"p", "r", "o", "d">>
Seed == <<"s", "e", "e", "d">>
Model == <<"m", "o", "d", "e", "l">>
Analytics == <<"a", "n", "a", "l", "y", "t", "i", "c", "s">>
Marketing == <<"m", "a", "r", "k", "e", "t", "i", "n", "g">>
RawData == <<"r", "a", "w", "_", "d", "a", "t", "a">>
CentsAmount == <<"c", "e", "n", "t", "s", "_", "a", "m", "o", "u", "n", "t">>
Bigquery == <<"b", "i", "g", "q", "u", "e", "r", "y">>
Postgres == <<"p", "o", "s", "t", "g", "r", "e", "s">>
Sqlserver == <<"s", "q", "l", "s", "e", "r", "v", "e", "r">>
Snowflake == <<"s", "n", "o", "w", "f", "l", "a", "k", "e">>
Redshift == <<"r", "e", "d", "s", "h", "i", "f", "t">>

----------------------------------------------------------------------------
(* generateSchemaName *)

\* const effectiveNode = node || {};
EffectiveNode(node) == IF Truthy(node) THEN node ELSE EmptyObject

\* effectiveNode.resourceType: undefined when the value has no such property
ResourceType(node) ==
    IF EffectiveNode(node).t = "object" THEN EffectiveNode(node).resourceType
    ELSE Undefined

\* generateSchemaName with the seed test moved behind the environment test
generateSchemaNameSeedLast(customSchemaName, node, defSchema, env) ==
    IF ~Truthy(customSchemaName)
    THEN Return(defSchema)
    ELSE IF StrictEquals(env, Str(Prod))
    THEN Return(Str(ToString(defSchema) \o <<"_">> \o Trim(customSchemaName.s)))
    ELSE IF StrictEquals(ResourceType(node), Str(Seed))
    THEN Return(Str(Trim(customSchemaName.s)))
    ELSE Return(defSchema)

\* generateSchemaName with the custom name of the prod branch left untrimmed
generateSchemaNameNoTrim(customSchemaName, node, defSchema, env) ==
    IF StrictEquals(ResourceType(node), Str(Seed))
    THEN Return(IF Truthy(customSchemaName)
                THEN Str(Trim(customSchemaName.s))
                ELSE customSchemaName)
    ELSE IF ~Truthy(customSchemaName)
    THEN Return(defSchema)
    ELSE IF StrictEquals(env, Str(Prod))
    THEN Return(Str(ToString(defSchema) \o <<"_">> \o customSchemaName.s))
    ELSE Return(defSchema)

\* generateSchemaName testing `environment` for truthiness, not for "prod"
generateSchemaNameAnyEnv(customSchemaName, node, defSchema, env) ==
    IF StrictEquals(ResourceType(node), Str(Seed))
    THEN Return(IF Truthy(customSchemaName)
                THEN Str(Trim(customSchemaName.s))
                ELSE customSchemaName)
    ELSE IF ~Truthy(customSchemaName)
    THEN Return(defSchema)
    ELSE IF Truthy(env)
    THEN Return(Str(ToString(defSchema) \o <<"_">> \o Trim(customSchemaName.s)))
    ELSE Return(defSchema)

\* generateSchemaName with the environment test ahead of the `!customSchemaName`
\* test: trim is then called on undefined or null, which throws a TypeError
generateSchemaNameProdFirst(customSchemaName, node, defSchema, env) ==
    IF StrictEquals(ResourceType(node), Str(Seed))
    THEN Return(IF Truthy(customSchemaName)
                THEN Str(Trim(customSchemaName.s))
                ELSE customSchemaName)
    ELSE IF StrictEquals(env, Str(Prod))
    THEN IF IsString(customSchemaName)
         THEN Return(Str(ToString(defSchema) \o <<"_">> \o Trim(customSchemaName.s)))
         ELSE Throw(<<"T", "y", "p", "e", "E", "r", "r", "o", "r">>)
    ELSE Return(defSchema)

\* generateSchemaName with a seed that has no custom name given the default schema
generateSchemaNameSeedDefault(customSchemaName, node, defSchema, env) ==
    IF StrictEquals(ResourceType(node), Str(Seed))
    THEN Return(IF Truthy(customSchemaName)
                THEN Str(Trim(customSchemaName.s))
                ELSE defSchema)
    ELSE IF ~Truthy(customSchemaName)
    THEN Return(defSchema)
    ELSE IF StrictEquals(env, Str(Prod))
    THEN Return(Str(ToString(defSchema) \o <<"_">> \o Trim(customSchemaName.s)))
    ELSE Return(defSchema)

\* variant: a seed with a custom name gets the prefixed name of rule 3
generateSchemaNameSeedPrefixed(customSchemaName, node, defSchema, env) ==
    IF StrictEquals(ResourceType(node), Str(Seed))
    THEN Return(IF Truthy(customSchemaName)
                THEN Str(ToString(defSchema) \o <<"_">>
                            \o Trim(customSchemaName.s))
                ELSE customSchemaName)
    ELSE IF ~Truthy(customSchemaName)
    THEN Return(defSchema)
    ELSE IF StrictEquals(env, Str(Prod))
    THEN Return(Str(ToString(defSchema) \o <<"_">> \o Trim(customSchemaName.s)))
    ELSE Return(defSchema)

\* variant: the resource type is trimmed and compared without regard to case
generateSchemaNameSeedLoose(customSchemaName, node, defSchema, env) ==
    IF /\ IsString(ResourceType(node))
       /\ ToUpperCase(Trim(ResourceType(node).s)) = ToUpperCase(Seed)
    THEN Return(IF Truthy(customSchemaName)
                THEN Str(Trim(customSchemaName.s))
                ELSE customSchemaName)
    ELSE IF ~Truthy(customSchemaName)
    THEN Return(defSchema)
    ELSE IF StrictEquals(env, Str(Prod))
    THEN Return(Str(ToString(defSchema) \o <<"_">> \o Trim(customSchemaName.s)))
    ELSE Return(defSchema)

\* variant: the environment is trimmed and compared without regard to case
generateSchemaNameEnvLoose(customSchemaName, node, defSchema, env) ==
    IF StrictEquals(ResourceType(node), Str(Seed))
    THEN Return(IF Truthy(customSchemaName)
                THEN Str(Trim(customSchemaName.s))
                ELSE customSchemaName)
    ELSE IF ~Truthy(customSchemaName)
    THEN Return(defSchema)
    ELSE IF IsString(env) /\ ToUpperCase(Trim(env.s)) = ToUpperCase(Prod)
    THEN Return(Str(ToString(defSchema) \o <<"_">> \o Trim(customSchemaName.s)))
    ELSE Return(defSchema)

\* variant: the result of the previous call is kept and handed out again
generateSchemaNameMemo(customSchemaName, node, defSchema, env) ==
    IF call.fn = "generateSchemaName" /\ outcome.kind = "return"
    THEN outcome
    ELSE IF StrictEquals(ResourceType(node), Str(Seed))
    THEN Return(IF Truthy(customSchemaName)
                THEN Str(Trim(customSchemaName.s))
                ELSE customSchemaName)
    ELSE IF ~Truthy(customSchemaName)
    THEN Return(defSchema)
    ELSE IF StrictEquals(env, Str(Prod))
    THEN Return(Str(ToString(defSchema) \o <<"_">> \o Trim(customSchemaName.s)))
    ELSE Return(defSchema)

\* the function body, with the two ambient reads passed in
generateSchemaName(customSchemaName, node, defSchema, env) ==
    IF StrictEquals(ResourceType(node), Str(Seed))
    THEN Return(IF Truthy(customSchemaName)
                THEN Str(Trim(customSchemaName.s))
                ELSE customSchemaName)
    ELSE IF ~Truthy(customSchemaName)
    THEN Return(defSchema)
    ELSE IF StrictEquals(env, Str(Prod))
    THEN Return(Str(ToString(defSchema) \o <<"_">> \o Trim(customSchemaName.s)))
    ELSE Return(defSchema)

----------------------------------------------------------------------------
(* centsToDollars *)

\* case "bigquery": `round(cast((${column_name} / 100) as numeric), 2)`
CentsToDollarsBigquery(column_name) ==
    <<"r", "o", "u", "n", "d", "(", "c", "a", "s", "t", "(", "(">>
        \o ToString(column_name)
        \o <<" ", "/", " ", "1", "0", "0", ")", " ", "a", "s", " ", "n", "u",
             "m", "e", "r", "i", "c", ")", ",", " ", "2", ")">>

\* case "postgres": `(${column_name}::numeric(16, 2) / 100)`
CentsToDollarsPostgres(column_name) ==
    <<"(">>
        \o ToString(column_name)
        \o <<":", ":", "n", "u", "m", "e", "r", "i", "c", "(", "1", "6", ",",
             " ", "2", ")", " ", "/", " ", "1", "0", "0", ")">>

\* case "sqlserver": `cast(${column_name} / 100 as numeric(16,2))`
CentsToDollarsSqlserver(column_name) ==
    <<"c", "a", "s", "t", "(">>
        \o ToString(column_name)
        \o <<" ", "/", " ", "1", "0", "0", " ", "a", "s", " ", "n", "u", "m",
             "e", "r", "i", "c", "(", "1", "6", ",", "2", ")", ")">>

\* default: `(${column_name} / 100)::numeric(16, 2)`
CentsToDollarsDefault(column_name) ==
    <<"(">>
        \o ToString(column_name)
        \o <<" ", "/", " ", "1", "0", "0", ")", ":", ":", "n", "u", "m", "e",
             "r", "i", "c", "(", "1", "6", ",", " ", "2", ")">>

\* centsToDollars whose default case throws instead of returning a template
centsToDollarsStrict(column_name, wh) ==
    IF StrictEquals(wh, Str(Bigquery))
    THEN Return(Str(CentsToDollarsBigquery(column_name)))
    ELSE IF StrictEquals(wh, Str(Postgres))
    THEN Return(Str(CentsToDollarsPostgres(column_name)))
    ELSE IF StrictEquals(wh, Str(Sqlserver))
    THEN Return(Str(CentsToDollarsSqlserver(column_name)))
    ELSE Throw(<<"E", "r", "r", "o", "r">>)

\* centsToDollars without the postgres case, which then takes the default one
centsToDollarsNoPostgres(column_name, wh) ==
    IF StrictEquals(wh, Str(Bigquery))
    THEN Return(Str(CentsToDollarsBigquery(column_name)))
    ELSE IF StrictEquals(wh, Str(Sqlserver))
    THEN Return(Str(CentsToDollarsSqlserver(column_name)))
    ELSE Return(Str(CentsToDollarsDefault(column_name)))

\* centsToDollars whose default case returns the postgres template
centsToDollarsDefaultCast(column_name, wh) ==
    IF StrictEquals(wh, Str(Bigquery))
    THEN Return(Str(CentsToDollarsBigquery(column_name)))
    ELSE IF StrictEquals(wh, Str(Sqlserver))
    THEN Return(Str(CentsToDollarsSqlserver(column_name)))
    ELSE Return(Str(CentsToDollarsPostgres(column_name)))

\* centsToDollars without the sqlserver case, which then takes the default one
centsToDollarsNoSqlserver(column_name, wh) ==
    IF StrictEquals(wh, Str(Bigquery))
    THEN Return(Str(CentsToDollarsBigquery(column_name)))
    ELSE IF StrictEquals(wh, Str(Postgres))
    THEN Return(Str(CentsToDollarsPostgres(column_name)))
    ELSE Return(Str(CentsToDollarsDefault(column_name)))

\* variant: the warehouse is trimmed and compared without regard to case
centsToDollarsTagLoose(column_name, wh) ==
    LET tag == IF IsString(wh) THEN ToUpperCase(Trim(wh.s)) ELSE <<>>
    IN  IF tag = ToUpperCase(Bigquery)
        THEN Return(Str(CentsToDollarsBigquery(column_name)))
        ELSE IF tag = ToUpperCase(Postgres)
        THEN Return(Str(CentsToDollarsPostgres(column_name)))
        ELSE IF tag = ToUpperCase(Sqlserver)
        THEN Return(Str(CentsToDollarsSqlserver(column_name)))
        ELSE Return(Str(CentsToDollarsDefault(column_name)))

\* variant: the operand is trimmed before it is interpolated
centsToDollarsTrimmed(column_name, wh) ==
    LET operand == IF IsString(column_name)
                   THEN Str(Trim(column_name.s)) ELSE column_name
    IN  IF StrictEquals(wh, Str(Bigquery))
        THEN Return(Str(CentsToDollarsBigquery(operand)))
        ELSE IF StrictEquals(wh, Str(Postgres))
        THEN Return(Str(CentsToDollarsPostgres(operand)))
        ELSE IF StrictEquals(wh, Str(Sqlserver))
        THEN Return(Str(CentsToDollarsSqlserver(operand)))
        ELSE Return(Str(CentsToDollarsDefault(operand)))

\* variant: the result of the previous call is kept and handed out again
centsToDollarsMemo(column_name, wh) ==
    IF call.fn = "centsToDollars" /\ outcome.kind = "return"
    THEN outcome
    ELSE IF StrictEquals(wh, Str(Bigquery))
    THEN Return(Str(CentsToDollarsBigquery(column_name)))
    ELSE IF StrictEquals(wh, Str(Postgres))
    THEN Return(Str(CentsToDollarsPostgres(column_name)))
    ELSE IF StrictEquals(wh, Str(Sqlserver))
    THEN Return(Str(CentsToDollarsSqlserver(column_name)))
    ELSE Return(Str(CentsToDollarsDefault(column_name)))

\* the function body, with the ambient read of the warehouse passed in
centsToDollars(column_name, wh) ==
    IF StrictEquals(wh, Str(Bigquery))
    THEN Return(Str(CentsToDollarsBigquery(column_name)))
    ELSE IF StrictEquals(wh, Str(Postgres))
    THEN Return(Str(CentsToDollarsPostgres(column_name)))
    ELSE IF StrictEquals(wh, Str(Sqlserver))
    THEN Return(Str(CentsToDollarsSqlserver(column_name)))
    ELSE Return(Str(CentsToDollarsDefault(column_name)))

----------------------------------------------------------------------------
(* stores.js: the query callback and its dateTruncExpression switch *)

\* "DATE_TRUNC(opened_at, DAY)"
DateTruncBigquery ==
    <<"D", "A", "T", "E", "_", "T", "R", "U", "N", "C", "(", "o", "p", "e",
      "n", "e", "d", "_", "a", "t", ",", " ", "D", "A", "Y", ")">>

\* "DATE_TRUNC('day', opened_at)" of the snowflake/redshift/postgres cases
DateTruncListed ==
    <<"D", "A", "T", "E", "_", "T", "R", "U", "N", "C", "(", "'", "d", "a",
      "y", "'", ",", " ", "o", "p", "e", "n", "e", "d", "_", "a", "t", ")">>

\* "DATE_TRUNC('day', opened_at)" of the default case
DateTruncDefault ==
    <<"D", "A", "T", "E", "_", "T", "R", "U", "N", "C", "(", "'", "d", "a",
      "y", "'", ",", " ", "o", "p", "e", "n", "e", "d", "_", "a", "t", ")">>

\* console.warn("Unknown warehouse type, using generic DATE_TRUNC syntax.")
UnknownWarehouseWarning ==
    <<"U", "n", "k", "n", "o", "w", "n", " ", "w", "a", "r", "e", "h", "o",
      "u", "s", "e", " ", "t", "y", "p", "e", ",", " ", "u", "s", "i", "n",
      "g", " ", "g", "e", "n", "e", "r", "i", "c", " ", "D", "A", "T", "E",
      "_", "T", "R", "U", "N", "C", " ", "s", "y", "n", "t", "a", "x", ".">>

\* the switch with "postgres" listed beside "bigquery"
DateTruncSwitchPostgresFirst(wh) ==
    IF StrictEquals(wh, Str(Bigquery)) \/ StrictEquals(wh, Str(Postgres))
    THEN [expression |-> Str(DateTruncBigquery), warned |-> <<>>]
    ELSE IF StrictEquals(wh, Str(Snowflake)) \/ StrictEquals(wh, Str(Redshift))
    THEN [expression |-> Str(DateTruncListed), warned |-> <<>>]
    ELSE [expression |-> Str(DateTruncDefault),
          warned |-> <<Str(UnknownWarehouseWarning)>>]

\* the switch without its break statements: every case runs on into the
\* default branch
DateTruncSwitchNoBreak(wh) ==
    [expression |-> Str(DateTruncDefault),
     warned |-> <<Str(UnknownWarehouseWarning)>>]

\* the switch whose default branch takes the bigquery expression
DateTruncSwitchDefaultBigquery(wh) ==
    IF StrictEquals(wh, Str(Bigquery))
    THEN [expression |-> Str(DateTruncBigquery), warned |-> <<>>]
    ELSE IF \/ StrictEquals(wh, Str(Snowflake))
            \/ StrictEquals(wh, Str(Redshift))
            \/ StrictEquals(wh, Str(Postgres))
    THEN [expression |-> Str(DateTruncListed), warned |-> <<>>]
    ELSE [expression |-> Str(DateTruncBigquery),
          warned |-> <<Str(UnknownWarehouseWarning)>>]

\* the switch: the expression chosen and the messages it writes
DateTruncSwitch(wh) ==
    IF StrictEquals(wh, Str(Bigquery))
    THEN [expression |-> Str(DateTruncBigquery), warned |-> <<>>]
    ELSE IF \/ StrictEquals(wh, Str(Snowflake))
            \/ StrictEquals(wh, Str(Redshift))
            \/ StrictEquals(wh, Str(Postgres))
    THEN [expression |-> Str(DateTruncListed), warned |-> <<>>]
    ELSE [expression |-> Str(DateTruncDefault),
          warned |-> <<Str(UnknownWarehouseWarning)>>]

\* the SQL text the callback returns: the expression is interpolated once, in
\* the line `${dateTruncExpression} AS opened_date`; the rest of the text is
\* the same for every warehouse and is kept as the two lines around it
StoresQueryText(expression) ==
    <<"t", "a", "x", "_", "r", "a", "t", "e", ",", "\n">>
        \o ToString(expression)
        \o <<" ", "A", "S", " ", "o", "p", "e", "n", "e", "d", "_", "d", "a",
             "t", "e", "\n">>

----------------------------------------------------------------------------
(* dateTrunc of definitions/utils.js *)

TypeError == <<"T", "y", "p", "e", "E", "r", "r", "o", "r">>

\* dateTrunc without the toUpperCase of the period
dateTruncNoUpper(period, column) ==
    IF ~IsString(period)
    THEN Throw(TypeError)
    ELSE Return(Str(<<"D", "A", "T", "E", "_", "T", "R", "U", "N", "C", "(">>
                    \o ToString(column) \o <<",", " ">>
                    \o period.s \o <<")">>))

\* const unit = period.toUpperCase(); return `DATE_TRUNC(${column}, ${unit})`;
\* reading toUpperCase of undefined or null throws a TypeError
dateTrunc(period, column) ==
    IF ~IsString(period)
    THEN Throw(TypeError)
    ELSE Return(Str(<<"D", "A", "T", "E", "_", "T", "R", "U", "N", "C", "(">>
                    \o ToString(column) \o <<",", " ">>
                    \o ToUpperCase(period.s) \o <<")">>))

----------------------------------------------------------------------------
(* Inputs *)

\* characters of the generated custom schema names
NameChars == {" ", "m"}

RECURSIVE SeqsUpTo(_, _)
SeqsUpTo(S, n) ==
    IF n = 0 THEN {<<>>}
    ELSE LET shorter == SeqsUpTo(S, n - 1)
         IN  shorter \cup {Append(q, c) : q \in shorter, c \in S}

CustomNames ==
    {Undefined, Null}
        \cup {Str(cs) : cs \in SeqsUpTo(NameChars, MaxLen)}
        \cup {Str(Marketing), Str(RawData), Str(<<"\t">>),
              Str(<<"\t", "m", " ", "m", "\n">>)}

Nodes ==
    {Undefined, Null, EmptyObject, Obj(Str(Seed)), Obj(Str(Model))}

DefaultSchemas == {Undefined, Str(<<>>), Str(Analytics)}

Environments ==
    {Undefined, Str(Prod), Str(<<"d", "e", "v">>), Str(<<"P", "R", "O", "D">>)}

Warehouses ==
    {Undefined, Str(Bigquery), Str(Postgres), Str(Sqlserver), Str(Snowflake),
     Str(Redshift),
     Str(<<"u", "n", "k", "n", "o", "w", "n", "-", "d", "i", "a", "l", "e",
           "c", "t">>)}

ColumnNames ==
    {Str(<<"p", "r", "i", "c", "e">>), Str(CentsAmount), Str(<<>>), Undefined}

\* argument lists of centsToDollars calls: none, one, or one too many
CentsArgLists ==
    {<<>>}
        \cup {<<c>> : c \in ColumnNames}
        \cup {<<c, Str(<<"t", "a", "x", "_", "p", "a", "i", "d">>)>> :
                 c \in {Str(<<"p", "r", "i", "c", "e">>), Str(CentsAmount)}}

OpenedAt == <<"o", "p", "e", "n", "e", "d", "_", "a", "t">>
OrderedAt == <<"o", "r", "d", "e", "r", "e", "d", "_", "a", "t">>
Day == <<"d", "a", "y">>

Periods == {Str(Day), Str(<<"D", "a", "y">>), Str(<<"M", "O", "N", "T", "H">>)}

\* argument lists of dateTrunc calls: none, period only, both, or one too many
DateTruncArgLists ==
    {<<>>, <<Str(Day), Str(OrderedAt), Str(OpenedAt)>>}
        \cup {<<p>> : p \in Periods}
        \cup {<<p, c>> : p \in Periods, c \in {Str(OpenedAt), Str(OrderedAt)}}

----------------------------------------------------------------------------
(* State machine *)

Init ==
    /\ defaultSchema \in DefaultSchemas
    /\ environment \in Environments
    /\ warehouse \in Warehouses
    /\ console = <<>>
    /\ call = NoCall
    /\ dateTruncExpression = Undefined
    /\ outcome = NoOutcome
    /\ pinned = NoPin
    /\ tasks = [i \in Tasks |-> IdleTask]
    /\ spine = SpineDefined

\* a call of generateSchemaName with the argument list args
DoGenerateSchemaName(args) ==
    /\ call' = [fn |-> "generateSchemaName", args |-> args]
    /\ outcome' = generateSchemaName(Arg(args, 1), Arg(args, 2),
                                     defaultSchema, environment)
    /\ UNCHANGED <<defaultSchema, environment, warehouse, console,
                   dateTruncExpression>>

\* a call of centsToDollars with the argument list args
DoCentsToDollars(args) ==
    /\ call' = [fn |-> "centsToDollars", args |-> args]
    /\ outcome' = centsToDollars(Arg(args, 1), warehouse)
    /\ UNCHANGED <<defaultSchema, environment, warehouse, console,
                   dateTruncExpression>>

\* a call of dateTrunc with the argument list args
DoDateTrunc(args) ==
    /\ call' = [fn |-> "dateTrunc", args |-> args]
    /\ outcome' = dateTrunc(Arg(args, 1), Arg(args, 2))
    /\ UNCHANGED <<defaultSchema, environment, warehouse, console,
                   dateTruncExpression>>

\* the query callback of stores.js; the console keeps at most MaxConsole
\* messages in the model, so a call that warns is taken only below that
DoStoresQuery ==
    LET chosen == DateTruncSwitch(warehouse)
    IN  /\ Len(console) + Len(chosen.warned) <= MaxConsole
        /\ call' = [fn |-> "storesQuery", args |-> <<>>]
        /\ dateTruncExpression' = chosen.expression
        /\ console' = console \o chosen.warned
        /\ outcome' = Return(Str(StoresQueryText(chosen.expression)))
        /\ UNCHANGED <<defaultSchema, environment, warehouse>>

CallGenerateSchemaName ==
    \E customSchemaName \in CustomNames, node \in Nodes :
        /\ DoGenerateSchemaName(<<customSchemaName, node>>)
        /\ UNCHANGED <<pinned, tasks, spine>>

CallCentsToDollars ==
    \E args \in CentsArgLists :
        /\ DoCentsToDollars(args)
        /\ UNCHANGED <<pinned, tasks, spine>>

CallDateTrunc ==
    \E args \in DateTruncArgLists :
        /\ DoDateTrunc(args)
        /\ UNCHANGED <<pinned, tasks, spine>>

StoresQuery ==
    /\ DoStoresQuery
    /\ UNCHANGED <<pinned, tasks, spine>>

Next ==
    \/ CallGenerateSchemaName
    \/ CallCentsToDollars
    \/ CallDateTrunc
    \/ StoresQuery

Spec == Init /\ [][Next]_vars

----------------------------------------------------------------------------
(* Several compilation runs, with one earlier call remembered *)

\* configurations of the runs
RunDefaultSchemas == {Undefined, Str(Analytics)}
RunEnvironments == {Str(Prod), Str(<<"d", "e", "v">>)}
RunWarehouses ==
    {Str(Bigquery), Str(Postgres),
     Str(<<"u", "n", "k", "n", "o", "w", "n", "-", "d", "i", "a", "l", "e",
           "c", "t">>)}

\* the calls made in the runs
RunGsnArgLists ==
    {<<c, n>> : c \in {Undefined, Str(Marketing), Str(<<" ">>)},
                n \in {Obj(Str(Model)), Obj(Str(Seed))}}

RunCentsArgLists == {<<>>, <<Str(<<"p", "r", "i", "c", "e">>)>>, <<Str(CentsAmount)>>}

RunDateTruncArgLists ==
    {<<Str(Day), Str(OpenedAt)>>, <<Str(<<"D", "a", "y">>), Str(OrderedAt)>>}

InitRuns ==
    /\ defaultSchema \in RunDefaultSchemas
    /\ environment \in RunEnvironments
    /\ warehouse \in RunWarehouses
    /\ console = <<>>
    /\ call = NoCall
    /\ dateTruncExpression = Undefined
    /\ outcome = NoOutcome
    /\ pinned = NoPin
    /\ tasks = [i \in Tasks |-> IdleTask]
    /\ spine = SpineDefined

\* the call just made is remembered if none is yet, or not at all
Remember ==
    \/ pinned' = pinned
    \/ /\ pinned = NoPin
       /\ pinned' = [call |-> call', defaultSchema |-> defaultSchema,
                     environment |-> environment, warehouse |-> warehouse,
                     outcome |-> outcome']

RunGenerateSchemaName ==
    \E args \in RunGsnArgLists :
        DoGenerateSchemaName(args) /\ Remember /\ UNCHANGED <<tasks, spine>>

RunCentsToDollars ==
    \E args \in RunCentsArgLists :
        DoCentsToDollars(args) /\ Remember /\ UNCHANGED <<tasks, spine>>

RunDateTrunc ==
    \E args \in RunDateTruncArgLists :
        DoDateTrunc(args) /\ Remember /\ UNCHANGED <<tasks, spine>>

RunStoresQuery == DoStoresQuery /\ Remember /\ UNCHANGED <<tasks, spine>>

\* a new compilation run (`dataform run --vars=...`) under another project
\* configuration: no call of the new run has been made yet
Reconfigure ==
    /\ defaultSchema' \in RunDefaultSchemas
    /\ environment' \in RunEnvironments
    /\ warehouse' \in RunWarehouses
    /\ <<defaultSchema', environment', warehouse'>>
           # <<defaultSchema, environment, warehouse>>
    /\ console' = <<>>
    /\ call' = NoCall
    /\ dateTruncExpression' = Undefined
    /\ outcome' = NoOutcome
    /\ UNCHANGED <<pinned, tasks, spine>>

NextRuns ==
    \/ RunGenerateSchemaName
    \/ RunCentsToDollars
    \/ RunDateTrunc
    \/ RunStoresQuery
    \/ Reconfigure

SpecRuns == InitRuns /\ [][NextRuns]_vars

----------------------------------------------------------------------------
(* Calls under configuration values and arguments that come close to the
   literals the code compares with, or to each other *)

VariantDefaultSchemas == {Undefined, Str(Analytics)}

\* dataform.variable("environment"): unset, "prod", and near misses of it
VariantEnvironments ==
    {Undefined, Str(Prod), Str(<<"P", "R", "O", "D">>),
     Str(<<"p", "r", "o", "d", "u", "c", "t", "i", "o", "n">>),
     Str(<<" ", "p", "r", "o", "d", " ">>)}

\* dataform.projectConfig.warehouse: unset, the case labels, and near misses
VariantWarehouses ==
    {Undefined, Str(Bigquery), Str(Postgres), Str(Sqlserver), Str(Snowflake),
     Str(<<"B", "i", "g", "Q", "u", "e", "r", "y">>),
     Str(<<"P", "o", "s", "t", "g", "r", "e", "s">>),
     Str(<<" ", "s", "q", "l", "s", "e", "r", "v", "e", "r">>)}

\* node: missing, null, without resourceType, and resource types at and
\* around "seed"
VariantNodes ==
    {Undefined, Null, EmptyObject, Obj(Str(Model)), Obj(Str(Seed)),
     Obj(Str(<<"S", "e", "e", "d">>)), Obj(Str(<<"s", "e", "e", "d", " ">>))}

VariantCustomNames ==
    {Undefined, Null, Str(Marketing), Str(<<" ", "m", "a", "r", "t", " ">>)}

\* column operands with white space, upper case and a quote in them
VariantColumnNames ==
    {Str(<<"p", "r", "i", "c", "e">>), Str(<<" ", "P", "r", "i", "c", "e", "'", " ">>),
     Str(<<"\"", "1", "0", "0", "\"">>)}

InitVariants ==
    /\ defaultSchema \in VariantDefaultSchemas
    /\ environment \in VariantEnvironments
    /\ warehouse \in VariantWarehouses
    /\ console = <<>>
    /\ call = NoCall
    /\ dateTruncExpression = Undefined
    /\ outcome = NoOutcome
    /\ pinned = NoPin
    /\ tasks = [i \in Tasks |-> IdleTask]
    /\ spine = SpineDefined

VariantGenerateSchemaName ==
    \E customSchemaName \in VariantCustomNames, node \in VariantNodes :
        /\ DoGenerateSchemaName(<<customSchemaName, node>>)
        /\ UNCHANGED <<pinned, tasks, spine>>

\* generateSchemaName(customSchemaName) with no second argument
VariantGenerateSchemaNameNoNode ==
    \E customSchemaName \in VariantCustomNames :
        /\ DoGenerateSchemaName(<<customSchemaName>>)
        /\ UNCHANGED <<pinned, tasks, spine>>

VariantCentsToDollars ==
    \E column_name \in VariantColumnNames :
        /\ DoCentsToDollars(<<column_name>>)
        /\ UNCHANGED <<pinned, tasks, spine>>

VariantStoresQuery ==
    /\ DoStoresQuery
    /\ UNCHANGED <<pinned, tasks, spine>>

NextVariants ==
    \/ VariantGenerateSchemaName
    \/ VariantGenerateSchemaNameNoNode
    \/ VariantCentsToDollars
    \/ VariantStoresQuery

SpecVariants == InitVariants /\ [][NextVariants]_vars

----------------------------------------------------------------------------
(* metricflow_time_spine: the query callback and the rows of
   UNNEST(GENERATE_DATE_ARRAY(start, DATE_ADD(start, INTERVAL n DAY),
   INTERVAL 1 DAY)) *)

\* DATE('2000-01-01')
SpineStartDate == Date(2000, 1, 1)

\* variant: ${365 * 10}
SpineIntervalWhole == 365 * 10

\* ${365 * 10 - 1}
SpineInterval == 365 * 10 - 1

IsLeapYear(y) == (y % 4 = 0 /\ y % 100 # 0) \/ y % 400 = 0

DaysInMonth(y, m) ==
    IF m = 2 THEN (IF IsLeapYear(y) THEN 29 ELSE 28)
    ELSE IF m \in {4, 6, 9, 11} THEN 30
    ELSE 31

\* the day after date
NextDay(date) ==
    IF date.d < DaysInMonth(date.y, date.m)
    THEN Date(date.y, date.m, date.d + 1)
    ELSE IF date.m < 12
    THEN Date(date.y, date.m + 1, 1)
    ELSE Date(date.y + 1, 1, 1)

RECURSIVE DaysBeforeMonth(_, _)
DaysBeforeMonth(y, m) ==
    IF m = 1 THEN 0
    ELSE DaysBeforeMonth(y, m - 1) + DaysInMonth(y, m - 1)

\* DATE_DIFF(date, from, DAY) for a date of the year of from or later
DateDiff(date, from) ==
    LET ordinal(x) == DaysBeforeMonth(x.y, x.m) + x.d
        leaps == Cardinality({y \in from.y .. date.y - 1 : IsLeapYear(y)})
    IN  365 * (date.y - from.y) + leaps + ordinal(date) - ordinal(from)

InitSpine ==
    /\ defaultSchema = Str(Analytics)
    /\ environment \in {Undefined, Str(Prod)}
    /\ warehouse = Str(Bigquery)
    /\ console = <<>>
    /\ call = NoCall
    /\ dateTruncExpression = Undefined
    /\ outcome = NoOutcome
    /\ pinned = NoPin
    /\ tasks = [i \in Tasks |-> IdleTask]
    /\ spine = SpineDefined

\* the query callback: the template literal is built, 365 * 10 - 1 computed
SpineQuery ==
    /\ spine.phase = "defined"
    /\ spine' = [spine EXCEPT !.phase = "compiled", !.interval = SpineInterval]
    /\ UNCHANGED <<defaultSchema, environment, warehouse, console, call,
                   dateTruncExpression, outcome, pinned, tasks>>

\* the next row of the date array: the start date first, then one day more
\* than the row before, as long as that is not after the end date, the start
\* date plus the interval
SpineRow ==
    /\ spine.phase = "compiled"
    /\ \/ /\ spine.rows = 0
          /\ spine' = [spine EXCEPT !.rows = 1, !.last = SpineStartDate]
       \/ /\ spine.rows > 0
          /\ DateDiff(NextDay(spine.last), SpineStartDate) <= spine.interval
          /\ spine' = [spine EXCEPT !.rows = spine.rows + 1,
                                    !.last = NextDay(spine.last)]
    /\ UNCHANGED <<defaultSchema, environment, warehouse, console, call,
                   dateTruncExpression, outcome, pinned, tasks>>

\* the array is complete: the row after the last one would be after the end
SpineEnd ==
    /\ spine.phase = "compiled"
    /\ spine.rows > 0
    /\ DateDiff(NextDay(spine.last), SpineStartDate) > spine.interval
    /\ spine' = [spine EXCEPT !.phase = "complete"]
    /\ UNCHANGED <<defaultSchema, environment, warehouse, console, call,
                   dateTruncExpression, outcome, pinned, tasks>>

NextSpine ==
    \/ SpineQuery
    \/ SpineRow
    \/ SpineEnd

SpecSpine == InitSpine /\ [][NextSpine]_vars

----------------------------------------------------------------------------
(* Reading the last call *)

GsnCalled == call.fn = "generateSchemaName"
CustomArg == Arg(call.args, 1)
NodeArg == Arg(call.args, 2)
CentsCalled == call.fn = "centsToDollars"
ColumnArg == Arg(call.args, 1)
DateTruncCalled == call.fn = "dateTrunc"
PeriodArg == Arg(call.args, 1)
DateColumnArg == Arg(call.args, 2)
StoresCalled == call.fn = "storesQuery"

\* the resource is a seed: a node object whose resourceType is "seed"
SeedLike(node) == node.t = "object" /\ node.resourceType = Str(Seed)

Absent(v) == v = Undefined \/ v = Null
AbsentOrEmpty(v) == Absent(v) \/ v = Str(<<>>)
NonBlank(v) == IsString(v) /\ Trim(v.s) # <<>>
WhitespaceOnly(v) == IsString(v) /\ v.s # <<>> /\ Trim(v.s) = <<>>

\* defaultSchema + "_" + trim(customName)
Prefixed(defSchema, customName) ==
    Str(ToString(defSchema) \o <<"_">> \o Trim(customName.s))

\* what the seed branch is specified to return
SeedResult(customName) ==
    IF IsString(customName) /\ customName.s # <<>>
    THEN Str(Trim(customName.s))
    ELSE customName

AnalyticsMarketing ==
    <<"a", "n", "a", "l", "y", "t", "i", "c", "s", "_", "m", "a", "r", "k",
      "e", "t", "i", "n", "g">>

----------------------------------------------------------------------------
(* Claims on generateSchemaName *)

C2_ProdPrefix ==
    (GsnCalled /\ ~SeedLike(NodeArg) /\ NonBlank(CustomArg)
        /\ environment = Str(Prod))
    => /\ outcome = Return(Prefixed(defaultSchema, CustomArg))
       /\ (CustomArg = Str(Marketing) /\ defaultSchema = Str(Analytics))
             => outcome = Return(Str(AnalyticsMarketing))

\* a custom name with surrounding white space, prefixed and trimmed in prod
C2_Witness ==
    /\ GsnCalled
    /\ NodeArg = Obj(Str(Model))
    /\ CustomArg = Str(<<"\t", "m", " ", "m", "\n">>)
    /\ environment = Str(Prod)
    /\ defaultSchema = Str(Analytics)
    /\ outcome = Return(Str(Analytics \o <<"_", "m", " ", "m">>))

\* C3: a non-seed with a present custom name outside prod gets exactly
\* defaultSchema; the custom name is ignored.
C3_NonProdDefault ==
    (GsnCalled /\ ~SeedLike(NodeArg) /\ IsString(CustomArg)
        /\ environment # Str(Prod))
    => outcome = Return(defaultSchema)

C3_Witness ==
    /\ GsnCalled
    /\ NodeArg = Obj(Str(Model))
    /\ CustomArg = Str(Marketing)
    /\ environment = Str(<<"d", "e", "v">>)
    /\ defaultSchema = Str(Analytics)
    /\ outcome = Return(Str(Analytics))

\* C4: a non-seed whose custom name is undefined or null gets exactly
\* defaultSchema in every environment, prod included.
C4_AbsentDefault ==
    (GsnCalled /\ ~SeedLike(NodeArg) /\ Absent(CustomArg))
    => outcome = Return(defaultSchema)

C4_Witness ==
    /\ GsnCalled
    /\ NodeArg = Obj(Str(Model))
    /\ CustomArg = Undefined
    /\ environment = Str(Prod)
    /\ defaultSchema = Str(Analytics)
    /\ outcome = Return(Str(Analytics))

\* C5: a non-seed whose custom name is only white space gets exactly
\* defaultSchema in every environment, prod included.
C5_WhitespaceIsAbsent ==
    (GsnCalled /\ ~SeedLike(NodeArg) /\ WhitespaceOnly(CustomArg))
    => outcome = Return(defaultSchema)

C7_NeverEmpty ==
    (GsnCalled /\ IsString(defaultSchema) /\ defaultSchema.s # <<>>)
    => ~(outcome.kind = "return" /\ outcome.value = Str(<<>>))

\* C8: under an empty or absent default schema generateSchemaName fails with
\* a ConfigurationError for every input and returns no name.
C8_ConfigurationError ==
    (GsnCalled /\ AbsentOrEmpty(defaultSchema))
    => outcome = Throw(<<"C", "o", "n", "f", "i", "g", "u", "r", "a", "t",
                         "i", "o", "n", "E", "r", "r", "o", "r">>)

----------------------------------------------------------------------------
(* Claims on the dialect dispatch *)

\* the tags with a case of their own in centsToDollars
CentsRegistered == {Str(Bigquery), Str(Postgres), Str(Sqlserver)}

\* the tags with a case label in the stores.js switch
DateTruncRegistered ==
    {Str(Bigquery), Str(Snowflake), Str(Redshift), Str(Postgres)}

\* C9: for a dialect tag without a case of its own, centsToDollars and the
\* stores.js switch return exactly the output of the default (fallback)
\* template; the call does not fail and the result is not empty.
C9_FallbackTotal ==
    /\ (CentsCalled /\ warehouse \notin CentsRegistered)
          => /\ outcome = Return(Str(CentsToDollarsDefault(ColumnArg)))
             /\ outcome.value.s # <<>>
    /\ (StoresCalled /\ warehouse \notin DateTruncRegistered)
          => /\ dateTruncExpression = Str(DateTruncDefault)
             /\ dateTruncExpression.s # <<>>
             /\ outcome = Return(Str(StoresQueryText(Str(DateTruncDefault))))

C9_Witness ==
    /\ CentsCalled
    /\ warehouse = Str(<<"u", "n", "k", "n", "o", "w", "n", "-", "d", "i",
                         "a", "l", "e", "c", "t">>)
    /\ ColumnArg = Str(CentsAmount)
    /\ outcome = Return(Str(CentsToDollarsDefault(Str(CentsAmount))))

\* C10 as stated: for postgres, centsToDollars on x returns exactly
\* "(" + x + "::numeric(16,2) / 100)".
C10_PostgresAsStated ==
    (CentsCalled /\ warehouse = Str(Postgres) /\ IsString(ColumnArg))
    => outcome = Return(Str(<<"(">> \o ColumnArg.s
                            \o <<":", ":", "n", "u", "m", "e", "r", "i", "c",
                                 "(", "1", "6", ",", "2", ")", " ", "/", " ",
                                 "1", "0", "0", ")">>))

\* C10: for postgres, centsToDollars on x returns exactly
\* "(" + x + "::numeric(16, 2) / 100)", with a space after the comma; for
\* x = "price" the result is "(price::numeric(16, 2) / 100)".
C10_PostgresExact ==
    (CentsCalled /\ warehouse = Str(Postgres) /\ IsString(ColumnArg))
    => /\ outcome = Return(Str(<<"(">> \o ColumnArg.s
                               \o <<":", ":", "n", "u", "m", "e", "r", "i",
                                    "c", "(", "1", "6", ",", " ", "2", ")",
                                    " ", "/", " ", "1", "0", "0", ")">>))
       /\ ColumnArg = Str(<<"p", "r", "i", "c", "e">>)
             => outcome = Return(Str(
                    <<"(", "p", "r", "i", "c", "e", ":", ":", "n", "u", "m",
                      "e", "r", "i", "c", "(", "1", "6", ",", " ", "2", ")",
                      " ", "/", " ", "1", "0", "0", ")">>))

C10_Witness ==
    /\ CentsCalled
    /\ warehouse = Str(Postgres)
    /\ ColumnArg = Str(<<"p", "r", "i", "c", "e">>)
    /\ outcome = Return(Str(CentsToDollarsPostgres(ColumnArg)))

\* C11 as stated: for a dialect tag other than bigquery, postgres and
\* sqlserver, centsToDollars on x returns exactly "(" + x + " / 100)::numeric(16,2)".
C11_FallbackAsStated ==
    (CentsCalled /\ warehouse \notin CentsRegistered /\ IsString(ColumnArg))
    => outcome = Return(Str(<<"(">> \o ColumnArg.s
                            \o <<" ", "/", " ", "1", "0", "0", ")", ":", ":",
                                 "n", "u", "m", "e", "r", "i", "c", "(", "1",
                                 "6", ",", "2", ")">>))

\* C11: for a dialect tag other than bigquery, postgres and sqlserver,
\* centsToDollars on x returns exactly "(" + x + " / 100)::numeric(16, 2)",
\* with a space after the comma; for x = "price" under "unknown-dialect" the
\* result is "(price / 100)::numeric(16, 2)".
C11_FallbackExact ==
    (CentsCalled /\ warehouse \notin CentsRegistered /\ IsString(ColumnArg))
    => /\ outcome = Return(Str(<<"(">> \o ColumnArg.s
                               \o <<" ", "/", " ", "1", "0", "0", ")", ":",
                                    ":", "n", "u", "m", "e", "r", "i", "c",
                                    "(", "1", "6", ",", " ", "2", ")">>))
       /\ ColumnArg = Str(<<"p", "r", "i", "c", "e">>)
             => outcome = Return(Str(
                    <<"(", "p", "r", "i", "c", "e", " ", "/", " ", "1", "0",
                      "0", ")", ":", ":", "n", "u", "m", "e", "r", "i", "c",
                      "(", "1", "6", ",", " ", "2", ")">>))

C11_Witness ==
    /\ CentsCalled
    /\ warehouse = Str(<<"u", "n", "k", "n", "o", "w", "n", "-", "d", "i",
                         "a", "l", "e", "c", "t">>)
    /\ call.args = <<Str(<<"p", "r", "i", "c", "e">>)>>
    /\ outcome = Return(Str(CentsToDollarsDefault(Str(<<"p", "r", "i", "c", "e">>))))

\* C12: for bigquery centsToDollars on x returns exactly
\* "round(cast((x / 100) as numeric), 2)" and for sqlserver exactly
\* "cast(x / 100 as numeric(16,2))".
C12_BigqueryAndSqlserver ==
    (CentsCalled /\ IsString(ColumnArg))
    => /\ warehouse = Str(Bigquery)
             => outcome = Return(Str(
                    <<"r", "o", "u", "n", "d", "(", "c", "a", "s", "t", "(",
                      "(">> \o ColumnArg.s
                    \o <<" ", "/", " ", "1", "0", "0", ")", " ", "a", "s",
                         " ", "n", "u", "m", "e", "r", "i", "c", ")", ",",
                         " ", "2", ")">>))
       /\ warehouse = Str(Sqlserver)
             => outcome = Return(Str(
                    <<"c", "a", "s", "t", "(">> \o ColumnArg.s
                    \o <<" ", "/", " ", "1", "0", "0", " ", "a", "s", " ",
                         "n", "u", "m", "e", "r", "i", "c", "(", "1", "6",
                         ",", "2", ")", ")">>))

C12_Witness ==
    /\ CentsCalled
    /\ warehouse = Str(Sqlserver)
    /\ call.args = <<Str(CentsAmount)>>
    /\ outcome = Return(Str(CentsToDollarsSqlserver(Str(CentsAmount))))

----------------------------------------------------------------------------
(* Claims on date truncation *)

\* a call of dateTrunc with both operands given as strings
DateTruncOnStrings ==
    DateTruncCalled /\ IsString(PeriodArg) /\ IsString(DateColumnArg)

NoLowerLetter(cs) ==
    \A i \in DOMAIN cs : \A j \in DOMAIN LowerLetters : cs[i] # LowerLetters[j]

\* the lower-case form of a unit, as the fallback template writes it
LowerChar(c) ==
    IF \E i \in DOMAIN UpperLetters : UpperLetters[i] = c
    THEN LowerLetters[CHOOSE i \in DOMAIN UpperLetters : UpperLetters[i] = c]
    ELSE c

ToLowerCase(cs) == [i \in DOMAIN cs |-> LowerChar(cs[i])]

\* the unit a period names, in upper case
UnitOf(period) ==
    IF ToLowerCase(period.s) = Day THEN <<"D", "A", "Y">>
    ELSE <<"M", "O", "N", "T", "H">>

\* "DATE_TRUNC(x, UNIT)"
BigqueryForm(x, unit) ==
    <<"D", "A", "T", "E", "_", "T", "R", "U", "N", "C", "(">>
        \o x \o <<",", " ">> \o unit \o <<")">>

\* "DATE_TRUNC('unit', x)"
FallbackForm(x, unit) ==
    <<"D", "A", "T", "E", "_", "T", "R", "U", "N", "C", "(", "'">>
        \o unit \o <<"'", ",", " ">> \o x \o <<")">>

\* C13: under bigquery, date truncation of x to a unit gives
\* "DATE_TRUNC(x, UNIT)" with the unit unquoted and in upper case whatever
\* the case it was passed in; "day" (or "Day") on opened_at gives
\* "DATE_TRUNC(opened_at, DAY)", and the bigquery branch of stores.js gives
\* that same text.
C13_BigqueryForm ==
    /\ (DateTruncOnStrings /\ warehouse = Str(Bigquery))
          => /\ outcome.kind = "return"
             /\ outcome.value = Str(BigqueryForm(DateColumnArg.s,
                                                 UnitOf(PeriodArg)))
             /\ NoLowerLetter(UnitOf(PeriodArg))
             /\ (PeriodArg \in {Str(Day), Str(<<"D", "a", "y">>)}
                     /\ DateColumnArg = Str(OpenedAt))
                   => outcome = Return(Str(
                          <<"D", "A", "T", "E", "_", "T", "R", "U", "N", "C",
                            "(", "o", "p", "e", "n", "e", "d", "_", "a", "t",
                            ",", " ", "D", "A", "Y", ")">>))
    /\ (StoresCalled /\ warehouse = Str(Bigquery))
          => dateTruncExpression = Str(BigqueryForm(OpenedAt, <<"D", "A", "Y">>))

\* dateTrunc("Day", "opened_at") under bigquery: the unit was upper-cased
C13_Witness ==
    /\ DateTruncCalled
    /\ warehouse = Str(Bigquery)
    /\ call.args = <<Str(<<"D", "a", "y">>), Str(OpenedAt)>>
    /\ outcome = Return(Str(DateTruncBigquery))

C15_ArityError ==
    LET ArityError == Throw(<<"A", "r", "i", "t", "y", "E", "r", "r", "o", "r">>)
    IN  /\ CentsCalled => (outcome = ArityError <=> Len(call.args) # 1)
        /\ DateTruncCalled => (outcome = ArityError <=> Len(call.args) # 2)


----------------------------------------------------------------------------
(* Calls in progress at the same time: each call is entered, reads the
   configuration into its constants, and returns *)

\* the calls the tasks make
TaskCalls ==
    {[fn |-> "generateSchemaName", args |-> <<Str(Marketing), Obj(Str(Model))>>],
     [fn |-> "generateSchemaName", args |-> <<Str(RawData), Obj(Str(Seed))>>],
     [fn |-> "centsToDollars", args |-> <<Str(<<"p", "r", "i", "c", "e">>)>>],
     [fn |-> "dateTrunc", args |-> <<Str(Day), Str(OpenedAt)>>],
     [fn |-> "storesQuery", args |-> <<>>]}

\* variant: the parameters are kept in one place shared by all calls
FrameArgsShared(i) == call.args

\* the parameters of a call are bound in the frame of that call
FrameArgs(i) == tasks[i].args

InitTasks ==
    /\ defaultSchema \in RunDefaultSchemas
    /\ environment \in RunEnvironments
    /\ warehouse \in RunWarehouses
    /\ console = <<>>
    /\ call = NoCall
    /\ dateTruncExpression = Undefined
    /\ outcome = NoOutcome
    /\ pinned = NoPin
    /\ tasks = [i \in Tasks |-> IdleTask]
    /\ spine = SpineDefined

\* task i calls a function: a new frame with the arguments bound
TaskEnter(i) ==
    \E c \in TaskCalls :
        /\ tasks[i].pc \in {"idle", "done"}
        /\ tasks' = [tasks EXCEPT ![i] =
                        [IdleTask EXCEPT !.pc = "entered", !.fn = c.fn,
                                         !.args = c.args]]
        /\ call' = c
        /\ UNCHANGED <<defaultSchema, environment, warehouse, console,
                       dateTruncExpression, outcome, pinned, spine>>

\* task i reads the configuration its function reads into its constants
TaskRead(i) ==
    /\ tasks[i].pc = "entered"
    /\ tasks' = [tasks EXCEPT ![i] =
          CASE tasks[i].fn = "generateSchemaName" ->
                   [tasks[i] EXCEPT !.pc = "read",
                                    !.defaultSchema = defaultSchema,
                                    !.environment = environment]
            [] tasks[i].fn \in {"centsToDollars", "storesQuery"} ->
                   [tasks[i] EXCEPT !.pc = "read", !.warehouse = warehouse]
            [] OTHER -> [tasks[i] EXCEPT !.pc = "read"]]
    /\ UNCHANGED <<defaultSchema, environment, warehouse, console, call,
                   dateTruncExpression, outcome, pinned, spine>>

\* task i runs the rest of its function on its own frame and returns
TaskReturn(i) ==
    LET frame == tasks[i]
        args == FrameArgs(i)
        chosen == DateTruncSwitch(frame.warehouse)
        warned == IF frame.fn = "storesQuery" THEN chosen.warned ELSE <<>>
        result ==
            CASE frame.fn = "generateSchemaName" ->
                     generateSchemaName(Arg(args, 1), Arg(args, 2),
                                        frame.defaultSchema, frame.environment)
              [] frame.fn = "centsToDollars" ->
                     centsToDollars(Arg(args, 1), frame.warehouse)
              [] frame.fn = "dateTrunc" ->
                     dateTrunc(Arg(args, 1), Arg(args, 2))
              [] OTHER -> Return(Str(StoresQueryText(chosen.expression)))
    IN  /\ frame.pc = "read"
        /\ Len(console) + Len(warned) <= MaxConsole
        /\ console' = console \o warned
        /\ tasks' = [tasks EXCEPT ![i] =
              [frame EXCEPT !.pc = "done", !.result = result,
                            !.dateTruncExpression =
                                IF frame.fn = "storesQuery"
                                THEN chosen.expression ELSE Undefined]]
        /\ UNCHANGED <<defaultSchema, environment, warehouse, call,
                       dateTruncExpression, outcome, pinned, spine>>

NextTasks ==
    \E i \in Tasks :
        \/ TaskEnter(i)
        \/ TaskRead(i)
        \/ TaskReturn(i)

SpecTasks == InitTasks /\ [][NextTasks]_vars

----------------------------------------------------------------------------
(* Claims on the calls of several runs *)

\* the call just made is the remembered call made again
SameCall == pinned # NoPin /\ pinned.call = call

\* the remembered call was made under the schema settings of this run
SameSchemaSettings ==
    /\ pinned.defaultSchema = defaultSchema
    /\ pinned.environment = environment

\* the remembered call was made under the warehouse setting of this run
SameWarehouse == pinned.warehouse = warehouse

----------------------------------------------------------------------------
(* Claims on the effects of a call *)

----------------------------------------------------------------------------
(* Claims on calls in progress at the same time *)

\* what the call of fn with args returns when it runs alone
Alone(fn, args) ==
    CASE fn = "generateSchemaName" ->
             generateSchemaName(Arg(args, 1), Arg(args, 2),
                                defaultSchema, environment)
      [] fn = "centsToDollars" -> centsToDollars(Arg(args, 1), warehouse)
      [] fn = "dateTrunc" -> dateTrunc(Arg(args, 1), Arg(args, 2))
      [] fn = "storesQuery" ->
             Return(Str(StoresQueryText(DateTruncSwitch(warehouse).expression)))

----------------------------------------------------------------------------
(* Claims on the documented contract of generateSchemaName *)

\* C21: generateSchemaName always returns a string: for every classification,
\* custom name (null and undefined included), environment and configured
\* default schema the returned value is a string, never null or undefined.
C21_AlwaysString ==
    (GsnCalled /\ IsString(defaultSchema))
        => (outcome.kind = "return" /\ IsString(outcome.value))

\* C22: a seed whose custom name is null or undefined is handled by the
\* `!customSchemaName` rule, so generateSchemaName returns the default project
\* schema for it.
C22_SeedWithoutNameGetsDefault ==
    (GsnCalled /\ SeedLike(NodeArg) /\ Absent(CustomArg))
        => outcome = Return(defaultSchema)


----------------------------------------------------------------------------
(* Claims on operands and tags taken as they are *)

Price == <<"p", "r", "i", "c", "e">>

\* the text centsToDollars gives for the operand "price" under warehouse wh
PriceText(wh) == centsToDollars(Str(Price), wh).value.s

\* the places of that text where the operand stands
PricePlaces(wh) ==
    {k \in 1 .. Len(PriceText(wh)) :
        /\ k + Len(Price) - 1 <= Len(PriceText(wh))
        /\ SubSeq(PriceText(wh), k, k + Len(Price) - 1) = Price}

\* what stands before and after the operand
CentsPrefix(wh) ==
    SubSeq(PriceText(wh), 1, (CHOOSE k \in PricePlaces(wh) : TRUE) - 1)

CentsSuffix(wh) ==
    SubSeq(PriceText(wh), (CHOOSE k \in PricePlaces(wh) : TRUE) + Len(Price),
           Len(PriceText(wh)))

\* C23: centsToDollars puts its operand into the text as it is, with no
\* escaping, quoting, trimming or change of case: under every warehouse the
\* result for a string x is prefix + x + suffix, where prefix and suffix are
\* those of the same warehouse for any other operand, and the operand stands
\* in exactly one place.
C23_OperandVerbatim ==
    (CentsCalled /\ IsString(ColumnArg))
        => /\ Cardinality(PricePlaces(warehouse)) = 1
           /\ outcome = Return(Str(CentsPrefix(warehouse) \o ColumnArg.s
                                       \o CentsSuffix(warehouse)))

\* the operand " Price' " under sqlserver, kept with its spaces, capital and
\* quote
C23_Witness ==
    /\ CentsCalled
    /\ warehouse = Str(Sqlserver)
    /\ ColumnArg = Str(<<" ", "P", "r", "i", "c", "e", "'", " ">>)
    /\ outcome = Return(Str(
           <<"c", "a", "s", "t", "(", " ", "P", "r", "i", "c", "e",
             "'", " ", " ", "/", " ", "1", "0", "0", " ", "a", "s",
             " ", "n", "u", "m", "e", "r", "i", "c", "(", "1", "6",
             ",", "2", ")", ")">>))


\* the expression of the default branch of the stores.js switch, taken under
\* an unset warehouse
DefaultBranchExpression == DateTruncSwitch(Undefined).expression

\* C24: in the stores.js switch the listed dialects snowflake, redshift and
\* postgres get exactly the expression of the default (unknown warehouse)
\* branch, "DATE_TRUNC('day', opened_at)"; only bigquery gets another one.
C24_ListedSameAsDefault ==
    StoresCalled =>
        /\ warehouse \in {Str(Snowflake), Str(Redshift), Str(Postgres)}
              => /\ dateTruncExpression = DefaultBranchExpression
                 /\ dateTruncExpression = Str(FallbackForm(OpenedAt, Day))
        /\ (dateTruncExpression # DefaultBranchExpression)
              <=> (warehouse = Str(Bigquery))

\* the switch under snowflake, a listed dialect: the default expression and
\* no warning
C24_Witness ==
    /\ StoresCalled
    /\ warehouse = Str(Snowflake)
    /\ dateTruncExpression = Str(DateTruncDefault)
    /\ outcome = Return(Str(StoresQueryText(Str(DateTruncDefault))))
    /\ console = <<>>


----------------------------------------------------------------------------
(* Claims on the metricflow_time_spine date series *)

\* C25: the date series has exactly 365 * 10 = 3650 entries, one per day
\* starting at 2000-01-01: the interval is 365 * 10 - 1 = 3649 days, every
\* entry is one day after the one before it (no duplicate, no gap), and the
\* complete series holds 3650 dates.
C25_SpineEntries ==
    /\ spine.phase # "defined" => spine.interval = 3649
    /\ spine.rows > 0 => DateDiff(spine.last, SpineStartDate) = spine.rows - 1
    /\ spine.rows <= 3650
    /\ spine.phase = "complete" => spine.rows = 3650

\* the complete series: 3650 rows, the last one 2009-12-28
C25_Witness ==
    /\ spine.phase = "complete"
    /\ spine.rows = 365 * 10
    /\ spine.last = Date(2009, 12, 28)


----------------------------------------------------------------------------
(* Claims on the comparisons of generateSchemaName *)

\* C26: the environment test is exact equality with the string "prod": for a
\* non-seed resource with a custom name only "prod" gives the prefixed name,
\* and every other value of the environment variable, unset, "PROD",
\* "production" and " prod " included, gives exactly defaultSchema.
C26_ExactProd ==
    (GsnCalled /\ ~SeedLike(NodeArg) /\ Truthy(CustomArg))
        => outcome = Return(IF environment = Str(Prod)
                            THEN Prefixed(defaultSchema, CustomArg)
                            ELSE defaultSchema)

\* a model with the custom name "marketing" under the environment " prod "
C26_Witness ==
    /\ GsnCalled
    /\ NodeArg = Obj(Str(Model))
    /\ CustomArg = Str(Marketing)
    /\ environment = Str(<<" ", "p", "r", "o", "d", " ">>)
    /\ defaultSchema = Str(Analytics)
    /\ outcome = Return(Str(Analytics))


\* the name is prefix followed by a non-empty s without white space at
\* either end
PrefixedByTrimmed(name, prefix) ==
    /\ IsString(name)
    /\ Len(name.s) > Len(prefix)
    /\ SubSeq(name.s, 1, Len(prefix)) = prefix
    /\ LET s == SubSeq(name.s, Len(prefix) + 1, Len(name.s))
       IN  Trim(s) = s

\* C27: every name generateSchemaName returns for a non-seed resource is
\* either exactly defaultSchema or defaultSchema + "_" + s with s non-empty
\* and without leading or trailing white space; custom names that differ only
\* in surrounding white space give the same result.
C27_NameShape ==
    (GsnCalled /\ ~SeedLike(NodeArg))
        => /\ outcome.kind = "return"
           /\ \/ outcome.value = defaultSchema
              \/ PrefixedByTrimmed(outcome.value,
                                   ToString(defaultSchema) \o <<"_">>)
           /\ IsString(CustomArg)
                 => outcome = generateSchemaName(Str(Trim(CustomArg.s)), NodeArg,
                                                 defaultSchema, environment)


\* C28: generateSchemaName called without a node argument, with a null node
\* or with a node without resourceType treats the resource as a non-seed and
\* returns what it returns for resourceType "model"; it never fails on a
\* missing node, and only the exact value "seed" selects the seed branch.
C28_MissingNodeIsNonSeed ==
    (GsnCalled /\ NodeArg # Obj(Str(Seed)))
        => /\ outcome.kind = "return"
           /\ outcome = generateSchemaName(CustomArg, Obj(Str(Model)),
                                           defaultSchema, environment)

\* generateSchemaName("marketing") with no node argument, in prod
C28_Witness ==
    /\ GsnCalled
    /\ call.args = <<Str(Marketing)>>
    /\ environment = Str(Prod)
    /\ defaultSchema = Str(Analytics)
    /\ outcome = Return(Str(AnalyticsMarketing))


----------------------------------------------------------------------------
(* Claims on the matching of the warehouse *)

\* the tag is unset, or is not one of the registered tags and becomes one of
\* them when trimmed and put in lower case
NearMiss(tag, registered) ==
    \/ tag = Undefined
    \/ /\ IsString(tag)
       /\ tag \notin registered
       /\ Str(ToLowerCase(Trim(tag.s))) \in registered

\* C29: dialect matching in centsToDollars and in the stores.js switch is
\* exact and case-sensitive: a tag that differs from a registered one only in
\* letter case or surrounding white space ("BigQuery", "Postgres",
\* " sqlserver"), and an undefined tag, get the fallback template (in
\* stores.js the default branch, with its warning) and not the template of
\* the registered dialect.
C29_ExactTags ==
    /\ (CentsCalled /\ NearMiss(warehouse, CentsRegistered))
          => /\ outcome = Return(Str(CentsToDollarsDefault(ColumnArg)))
             /\ IsString(warehouse)
                   => outcome # centsToDollars(ColumnArg,
                                    Str(ToLowerCase(Trim(warehouse.s))))
    /\ (StoresCalled /\ NearMiss(warehouse, DateTruncRegistered))
          => /\ dateTruncExpression = Str(DateTruncDefault)
             /\ console # <<>>
             /\ console[Len(console)] = Str(UnknownWarehouseWarning)

\* centsToDollars("price") under the warehouse "BigQuery": the fallback text
C29_Witness ==
    /\ CentsCalled
    /\ warehouse = Str(<<"B", "i", "g", "Q", "u", "e", "r", "y">>)
    /\ ColumnArg = Str(Price)
    /\ outcome = Return(Str(CentsToDollarsDefault(Str(Price))))
    /\ dateTruncExpression = Str(DateTruncDefault)


----------------------------------------------------------------------------
(* Claims on seed names fed back *)

\* C30: seed naming is idempotent: for every custom name x, absent, empty
\* and white space only included, the result of generateSchemaName(x, seed)
\* given back as the custom name of a seed returns that same result again.
C30_SeedIdempotent ==
    (GsnCalled /\ SeedLike(NodeArg))
        => /\ outcome.kind = "return"
           /\ generateSchemaName(outcome.value, NodeArg,
                                 defaultSchema, environment) = outcome

\* the seed name " m" gives "m", and "m" given back gives "m" again
C30_Witness ==
    /\ GsnCalled
    /\ NodeArg = Obj(Str(Seed))
    /\ CustomArg = Str(<<" ", "m">>)
    /\ outcome = Return(Str(<<"m">>))
    /\ generateSchemaName(Str(<<"m">>), Obj(Str(Seed)),
                          defaultSchema, environment) = Return(Str(<<"m">>))

============================================================================
